---- MODULE Spec2Model ----
(***************************************************************************)
(* Model of src/app.py: a motorcycle CRUD service.  The table              *)
(* vehicle.motorcycle is the state; one action per request handler of      *)
(* MotorcycleController, each running MotorcycleService and                *)
(* MotorcycleRepository to completion.  A second specification (RaceSpec)  *)
(* runs the two storage round trips of update and delete as separate       *)
(* steps of several server processes sharing the database.                 *)
(*                                                                         *)
(* VINs are modelled by their rank in the collation order (1 < 2 < ...),   *)
(* field values by abstract tokens.                                        *)
(***************************************************************************)
EXTENDS Integers, Sequences, FiniteSets, TLC

\* ---- bounds ----
MaxVin == 2
MaxId == 2

\* ---- data shapes ----
Vins == 1..MaxVin
NoVin == 0
Absent == "absent"
Null == "null"
Values == {"v1", "v2"}

\* columns of MotorcycleModel other than id and vin
Fields == {"motorcycle_type", "odometer_value", "odometer_unit",
           "is_electric", "number_of_seats"}

\* a body with vin v (NoVin: left out) that supplies the fields of S:
\* number_of_seats with y, the others with x
MkBody(v, S, x, y) ==
    [k \in Fields \cup {"vin"} |->
        IF k = "vin" THEN v
        ELSE IF k \notin S THEN Absent
        ELSE IF k = "number_of_seats" THEN y ELSE x]

\* what a body says about the fields: all of them (with values, or with an
\* explicit null), number_of_seats alone (a value or null), or none
FieldParts ==
    {<<Fields, "v1", "v2">>, <<Fields, "v2", "v1">>, <<Fields, "v1", Null>>,
     <<{"number_of_seats"}, "v1", "v2">>, <<{"number_of_seats"}, "v1", Null>>,
     <<{}, "v1", "v1">>}

\* JSON bodies a client may send, with the vin present or left out
Bodies ==
    {MkBody(v, p[1], p[2], p[3]) : v \in Vins \cup {NoVin}, p \in FieldParts}

VARIABLES db, next_id, op, resp, inflight

vars == <<db, next_id, op, resp, inflight>>

Workers == {"p1", "p2"}

\* ---- Entity model and wire schemas ----
Columns == {"id", "vin"} \cup Fields

\* MotorcycleCreate: every field required and non-null
MotorcycleCreate(body) ==
    /\ body["vin"] # NoVin
    /\ \A f \in Fields : body[f] \in Values

\* MotorcycleUpdate: every field optional, null allowed
MotorcycleUpdate(body) == TRUE

\* the keys of a body the client set explicitly
FieldsSet(body) ==
    {k \in DOMAIN body : IF k = "vin" THEN body[k] # NoVin ELSE body[k] # Absent}

\* data.model_dump(): every key of the schema
model_dump(body) == [k \in DOMAIN body |-> body[k]]

\* data.model_dump(exclude_unset=True): only the keys that were set
model_dump_exclude_unset(body) == [k \in FieldsSet(body) |-> body[k]]

\* MotorcycleResponse.model_validate(obj): read every response attribute
MotorcycleResponse(row) == [k \in Columns |-> row[k]]

\* ---- Persistence adapter ----
\* repository get_one(vin=...): the rows matching the vin
get_one(rows, v) == {r \in rows : r["vin"] = v}

Stored(rows, v) == get_one(rows, v) # {}
RowOf(rows, v) == CHOOSE r \in get_one(rows, v) : TRUE
Ids(rows) == {r["id"] : r \in rows}

RECURSIVE OrderBy(_, _)
\* repository list(order_by=(vin, is_desc)): the second element of the pair
\* asks for descending order
OrderBy(rows, is_desc) ==
    IF rows = {} THEN <<>>
    ELSE LET first == CHOOSE r \in rows : \A q \in rows :
                          IF is_desc THEN q["vin"] <= r["vin"]
                                     ELSE r["vin"] <= q["vin"]
         IN <<first>> \o OrderBy(rows \ {first}, is_desc)

\* MotorcycleRepository.list_motorcycles
repo_list_motorcycles(rows) == OrderBy(rows, FALSE)

\* MotorcycleRepository.get_motorcycle_by_vin
repo_get_motorcycle_by_vin(rows, v) ==
    LET found == get_one(rows, v)
    IN IF found = {} THEN [status |-> "NotFound", out |-> <<>>]
       ELSE [status |-> "Ok", out |-> <<CHOOSE r \in found : TRUE>>]

\* variant: an INSERT that replaces the row of a vin already stored
repo_create_motorcycle_upsert(rows, id, data) ==
    LET row == [k \in Columns |-> IF k = "id" THEN id ELSE data[k]]
    IN [status |-> "Ok",
        rows |-> {r \in rows : r["vin"] # data["vin"]} \cup {row},
        out |-> <<row>>]

\* variant: a table without the unique constraint on vin
repo_create_motorcycle_no_unique(rows, id, data) ==
    LET row == [k \in Columns |-> IF k = "id" THEN id ELSE data[k]]
    IN [status |-> "Ok", rows |-> rows \cup {row}, out |-> <<row>>]

\* MotorcycleRepository.create_motorcycle: INSERT with a server-assigned id;
\* the unique constraint on vin rejects a duplicate
repo_create_motorcycle(rows, id, data) ==
    IF \E r \in rows : r["vin"] = data["vin"]
    THEN [status |-> "ConflictError", rows |-> rows, out |-> <<>>]
    ELSE LET row == [k \in Columns |-> IF k = "id" THEN id ELSE data[k]]
         IN [status |-> "Ok", rows |-> rows \cup {row}, out |-> <<row>>]

\* variant: an update that deletes the row and inserts it again under a new id
repo_update_reinsert(rows, data, seen) ==
    LET cur == {r \in rows : r["id"] = data["id"]}
    IN IF cur = {} THEN [status |-> "NotFound", rows |-> rows, out |-> <<>>]
       ELSE LET old == CHOOSE r \in cur : TRUE
                new == [k \in Columns |->
                          IF k = "id" THEN old["id"] + MaxId
                          ELSE IF k \in DOMAIN data THEN data[k] ELSE old[k]]
            IN [status |-> "Ok", rows |-> (rows \ {old}) \cup {new},
                out |-> <<new>>]

\* variant: an update that replaces the whole row, on nullable columns
repo_update_replace(rows, data, seen) ==
    LET cur == {r \in rows : r["id"] = data["id"]}
    IN IF cur = {} THEN [status |-> "NotFound", rows |-> rows, out |-> <<>>]
       ELSE LET old == CHOOSE r \in cur : TRUE
                new == [k \in Columns |->
                          IF k \in DOMAIN data THEN data[k] ELSE Null]
            IN [status |-> "Ok", rows |-> (rows \ {old}) \cup {new},
                out |-> <<new>>]

\* variant: an update that merges without fetching the row first, and so
\* inserts the instance when its row is gone
repo_update_merge_only(rows, data, seen) ==
    LET cur == {r \in rows : r["id"] = data["id"]}
        new == [k \in Columns |-> IF k \in DOMAIN data THEN data[k] ELSE seen[k]]
    IN [status |-> "Ok", rows |-> (rows \ cur) \cup {new}, out |-> <<new>>]

\* repository update(data): fetch the row with data's id, merge the
\* attributes set on data into the instance the session loaded (seen), write
\* the changed columns, re-read the row
repo_update(rows, data, seen) ==
    LET cur == {r \in rows : r["id"] = data["id"]}
    IN IF cur = {} THEN [status |-> "NotFound", rows |-> rows, out |-> <<>>]
       ELSE LET old == CHOOSE r \in cur : TRUE
                new == [k \in Columns |->
                          IF k \in DOMAIN data /\ data[k] # seen[k]
                          THEN data[k] ELSE old[k]]
            IN IF \E f \in Fields : new[f] = Null
               THEN [status |-> "IntegrityError", rows |-> rows, out |-> <<>>]
               ELSE [status |-> "Ok", rows |-> (rows \ {old}) \cup {new},
                     out |-> <<new>>]

\* data.id = existing_db_obj.id
WithId(data, id) ==
    [k \in DOMAIN data \cup {"id"} |-> IF k = "id" THEN id ELSE data[k]]

\* repository delete(item_id): fetch the row by id, delete it
repo_delete(rows, id) ==
    LET cur == {r \in rows : r["id"] = id}
    IN IF cur = {} THEN [status |-> "NotFound", rows |-> rows, out |-> <<>>]
       ELSE [status |-> "Ok", rows |-> rows \ cur, out |-> <<>>]

\* MotorcycleRepository.update_motorcycle, both round trips in one go
repo_update_motorcycle(rows, data) ==
    LET found == get_one(rows, data["vin"])
    IN IF found = {} THEN [status |-> "NotFound", rows |-> rows, out |-> <<>>]
       ELSE LET existing_db_obj == CHOOSE r \in found : TRUE
            IN repo_update(rows, WithId(data, existing_db_obj["id"]),
                           existing_db_obj)

\* variant: a delete that succeeds when there is nothing to delete
repo_delete_motorcycle_by_vin_idempotent(rows, v) ==
    [status |-> "Ok", rows |-> rows \ get_one(rows, v), out |-> <<>>]

\* MotorcycleRepository.delete_motorcycle_by_vin, both round trips in one go
repo_delete_motorcycle_by_vin(rows, v) ==
    LET found == get_one(rows, v)
    IN IF found = {} THEN [status |-> "NotFound", rows |-> rows, out |-> <<>>]
       ELSE repo_delete(rows, (CHOOSE r \in found : TRUE)["id"])

\* ---- Application service ----
Responses(objs) == [i \in 1..Len(objs) |-> MotorcycleResponse(objs[i])]

\* MotorcycleService.list_motorcycles
list_motorcycles(rows) ==
    [status |-> "Ok", rows |-> rows, out |-> Responses(repo_list_motorcycles(rows))]

\* MotorcycleService.get_motorcycle_by_vin
get_motorcycle_by_vin(rows, v) ==
    LET r == repo_get_motorcycle_by_vin(rows, v)
    IN [status |-> r.status, rows |-> rows, out |-> Responses(r.out)]

\* variant: a create that answers without committing the INSERT
create_motorcycle_uncommitted(rows, id, body) ==
    LET r == repo_create_motorcycle(rows, id, model_dump(body))
    IN [status |-> r.status, rows |-> rows, out |-> Responses(r.out)]

\* MotorcycleService.create_motorcycle
create_motorcycle(rows, id, body) ==
    LET db_data == model_dump(body)
        r == repo_create_motorcycle(rows, id, db_data)
    IN [status |-> r.status, rows |-> r.rows, out |-> Responses(r.out)]

\* the gate of MotorcycleService.update_motorcycle
VinMatches(v, body) == v = body["vin"]

\* data_dict of MotorcycleService.update_motorcycle
data_dict(body, schema) ==
    IF schema = "MotorcycleUpdate" THEN model_dump_exclude_unset(body)
    ELSE model_dump(body)

\* variant: an update that looks the row up before it compares the vins
update_motorcycle_lookup_first(rows, v, body, schema) ==
    IF ~Stored(rows, v)
    THEN [status |-> "NotFound", rows |-> rows, out |-> <<>>]
    ELSE IF ~VinMatches(v, body)
    THEN [status |-> "ValidationError", rows |-> rows, out |-> <<>>]
    ELSE LET r == repo_update_motorcycle(rows, data_dict(body, schema))
         IN [status |-> r.status, rows |-> r.rows, out |-> Responses(r.out)]

\* MotorcycleService.update_motorcycle
update_motorcycle(rows, v, body, schema) ==
    IF ~VinMatches(v, body)
    THEN [status |-> "ValidationError", rows |-> rows, out |-> <<>>]
    ELSE LET r == repo_update_motorcycle(rows, data_dict(body, schema))
         IN [status |-> r.status, rows |-> r.rows, out |-> Responses(r.out)]

\* MotorcycleService.delete_motorcycle_by_vin
delete_motorcycle_by_vin(rows, v) == repo_delete_motorcycle_by_vin(rows, v)

\* ---- Request handlers ----
\* Each handler of MotorcycleController as a function of the table and the
\* request: the answer (status, out) and the table afterwards (rows).
Rejected(rows) == [status |-> "ValidationError", rows |-> rows, out |-> <<>>]

\* GET /motorcycles
ctl_list_motorcycles(rows) == list_motorcycles(rows)

\* GET /motorcycles/{vin}
ctl_get_motorcycle_by_vin(rows, v) == get_motorcycle_by_vin(rows, v)

\* POST /motorcycles, data: MotorcycleCreate
ctl_create_motorcycle(rows, id, body) ==
    IF ~MotorcycleCreate(body) THEN Rejected(rows)
    ELSE create_motorcycle(rows, id, body)

\* PUT /motorcycles/{vin}, data: MotorcycleUpdate
ctl_update_motorcycle(rows, v, body) ==
    IF ~MotorcycleUpdate(body) THEN Rejected(rows)
    ELSE update_motorcycle(rows, v, body, "MotorcycleUpdate")

\* PATCH /motorcycles/{vin}, data: MotorcycleUpdate
ctl_partially_update_motorcycle(rows, v, body) ==
    IF ~MotorcycleUpdate(body) THEN Rejected(rows)
    ELSE update_motorcycle(rows, v, body, "MotorcycleUpdate")

\* DELETE /motorcycles/{vin}
ctl_delete_motorcycle_by_vin(rows, v) == delete_motorcycle_by_vin(rows, v)

Idle == [pc |-> "idle"]

\* the application after on_startup: the table exists and is empty
Init ==
    /\ db = {}
    /\ next_id = 1
    /\ op = "startup"
    /\ resp = [status |-> "Ok", out |-> <<>>]
    /\ inflight = [w \in Workers |-> Idle]

Reply(r) ==
    /\ db' = r.rows
    /\ resp' = [status |-> r.status, out |-> r.out]

ListMotorcycles ==
    /\ op' = "list"
    /\ Reply(ctl_list_motorcycles(db))
    /\ UNCHANGED <<next_id, inflight>>

GetMotorcycleByVin(v) ==
    /\ op' = "get"
    /\ Reply(ctl_get_motorcycle_by_vin(db, v))
    /\ UNCHANGED <<next_id, inflight>>

\* the id sequence advances with every row inserted; MaxId caps it
CreateMotorcycle(body) ==
    LET r == ctl_create_motorcycle(db, next_id, body)
    IN /\ r.status = "Ok" => next_id <= MaxId
       /\ op' = "create"
       /\ Reply(r)
       /\ next_id' = IF r.status = "Ok" THEN next_id + 1 ELSE next_id
       /\ UNCHANGED inflight

UpdateMotorcycle(v, body) ==
    /\ op' = "put"
    /\ Reply(ctl_update_motorcycle(db, v, body))
    /\ UNCHANGED <<next_id, inflight>>

PartiallyUpdateMotorcycle(v, body) ==
    /\ op' = "patch"
    /\ Reply(ctl_partially_update_motorcycle(db, v, body))
    /\ UNCHANGED <<next_id, inflight>>

DeleteMotorcycleByVin(v) ==
    /\ op' = "delete"
    /\ Reply(ctl_delete_motorcycle_by_vin(db, v))
    /\ UNCHANGED <<next_id, inflight>>

Next ==
    \/ ListMotorcycles
    \/ \E v \in Vins : GetMotorcycleByVin(v)
    \/ \E body \in Bodies : CreateMotorcycle(body)
    \/ \E v \in Vins, body \in Bodies : UpdateMotorcycle(v, body)
    \/ \E v \in Vins, body \in Bodies : PartiallyUpdateMotorcycle(v, body)
    \/ \E v \in Vins : DeleteMotorcycleByVin(v)

Spec == Init /\ [][Next]_vars

\* ---- Several server processes on one database ----
\* Each process serves one request at a time; every repository call is one
\* round trip to the database, which other processes' round trips may precede
\* or follow.  inflight[w] holds the request of process w between the lookup
\* and the act of an update or a delete, with the row its session loaded.
RaceCreates == {MkBody(v, Fields, "v1", "v1") : v \in Vins}
RaceUpdates == {MkBody(v, {"number_of_seats"}, "v2", "v2") : v \in Vins}

Pending == [status |-> "Pending", out |-> <<>>]

\* update handler up to existing_db_obj = self.get_one(vin=data.vin)
UpdateLookup(w, o, v, body) ==
    /\ inflight[w] = Idle
    /\ op' = o
    /\ IF ~VinMatches(v, body)
       THEN /\ resp' = [status |-> "ValidationError", out |-> <<>>]
            /\ UNCHANGED inflight
       ELSE LET found == get_one(db, data_dict(body, "MotorcycleUpdate")["vin"])
            IN IF found = {}
               THEN /\ resp' = [status |-> "NotFound", out |-> <<>>]
                    /\ UNCHANGED inflight
               ELSE /\ resp' = Pending
                    /\ inflight' = [inflight EXCEPT ![w] =
                          [pc |-> "update", op |-> o, body |-> body,
                           seen |-> CHOOSE r \in found : TRUE]]
    /\ UNCHANGED <<db, next_id>>

\* update handler from data.id = existing_db_obj.id to the response
update_act(rows, local) ==
    LET data == WithId(data_dict(local.body, "MotorcycleUpdate"), local.seen["id"])
        r == repo_update(rows, data, local.seen)
    IN [status |-> r.status, rows |-> r.rows, out |-> Responses(r.out)]

UpdateAct(w) ==
    /\ inflight[w].pc = "update"
    /\ Reply(update_act(db, inflight[w]))
    /\ op' = inflight[w].op
    /\ inflight' = [inflight EXCEPT ![w] = Idle]
    /\ UNCHANGED next_id

\* delete handler up to db_obj = self.get_one(vin=vin)
DeleteLookup(w, v) ==
    /\ inflight[w] = Idle
    /\ op' = "delete"
    /\ LET found == get_one(db, v)
       IN IF found = {}
          THEN /\ resp' = [status |-> "NotFound", out |-> <<>>]
               /\ UNCHANGED inflight
          ELSE /\ resp' = Pending
               /\ inflight' = [inflight EXCEPT ![w] =
                     [pc |-> "delete", op |-> "delete",
                      seen |-> CHOOSE r \in found : TRUE]]
    /\ UNCHANGED <<db, next_id>>

\* delete handler: self.delete(item_id=db_obj.id)
delete_act(rows, local) == repo_delete(rows, local.seen["id"])

DeleteAct(w) ==
    /\ inflight[w].pc = "delete"
    /\ Reply(delete_act(db, inflight[w]))
    /\ op' = inflight[w].op
    /\ inflight' = [inflight EXCEPT ![w] = Idle]
    /\ UNCHANGED next_id

RaceNext ==
    \/ \E body \in RaceCreates : CreateMotorcycle(body)
    \/ \E w \in Workers, o \in {"put", "patch"}, v \in Vins, body \in RaceUpdates :
          UpdateLookup(w, o, v, body)
    \/ \E w \in Workers : UpdateAct(w)
    \/ \E w \in Workers, v \in Vins : DeleteLookup(w, v)
    \/ \E w \in Workers : DeleteAct(w)

RaceSpec == Init /\ [][RaceNext]_vars

\* ---- Properties ----
\* The properties of a handler are stated over its answer to every request
\* in every state the service reaches.

\* C1: a create with a valid body whose vin is not stored succeeds, and a
\* get of that vin then returns the body's vin and fields, with an id that no
\* stored row had.
C1_CreateThenGet ==
    \A body \in Bodies :
       (MotorcycleCreate(body) /\ ~Stored(db, body["vin"])) =>
          LET c == ctl_create_motorcycle(db, next_id, body)
              g == ctl_get_motorcycle_by_vin(c.rows, body["vin"])
          IN /\ c.status = "Ok"
             /\ g.status = "Ok"
             /\ Len(g.out) = 1
             /\ \A k \in Fields \cup {"vin"} : g.out[1][k] = body[k]
             /\ g.out[1]["id"] \notin Ids(db)

C1_Witness ==
    /\ op = "create"
    /\ resp.status = "Ok"
    /\ ctl_get_motorcycle_by_vin(db, resp.out[1]["vin"]).out = resp.out
    /\ resp.out[1]["number_of_seats"] # resp.out[1]["motorcycle_type"]
    /\ Cardinality(db) = 2

\* C2: a create with a valid body whose vin is stored fails with
\* ConflictError and leaves every stored row as it was.
C2_DuplicateVinConflict ==
    \A body \in Bodies :
       (MotorcycleCreate(body) /\ Stored(db, body["vin"])) =>
          LET c == ctl_create_motorcycle(db, next_id, body)
          IN /\ c.status = "ConflictError"
             /\ c.rows = db

C2_Witness ==
    /\ op = "create"
    /\ resp.status = "ConflictError"
    /\ Cardinality(db) = 2

\* C3: on a vin that is not stored, get, update (PUT or PATCH, body vin equal
\* to the path vin) and delete each answer NotFound and leave the table as it
\* was; a delete of a stored vin leaves it not stored, so that a second
\* delete answers NotFound.
C3_NotFoundOnMissingVin ==
    \A v \in Vins :
       /\ ~Stored(db, v) =>
            /\ LET g == ctl_get_motorcycle_by_vin(db, v)
               IN g.status = "NotFound" /\ g.rows = db
            /\ LET d == ctl_delete_motorcycle_by_vin(db, v)
               IN d.status = "NotFound" /\ d.rows = db
            /\ \A body \in Bodies : body["vin"] = v =>
                 LET u == ctl_update_motorcycle(db, v, body)
                     p == ctl_partially_update_motorcycle(db, v, body)
                 IN /\ u.status = "NotFound" /\ u.rows = db
                    /\ p.status = "NotFound" /\ p.rows = db
       /\ Stored(db, v) =>
            LET d == ctl_delete_motorcycle_by_vin(db, v)
                e == ctl_delete_motorcycle_by_vin(d.rows, v)
            IN /\ d.status = "Ok"
               /\ ~Stored(d.rows, v)
               /\ e.status = "NotFound" /\ e.rows = d.rows

C3_Witness ==
    /\ op = "delete"
    /\ resp.status = "NotFound"
    /\ next_id > 1
    /\ db = {}

\* C4: an update (PUT or PATCH) whose body vin differs from the path vin, or
\* is left out, answers ValidationError and leaves the table as it was, whether
\* the path vin is stored or not.
C4_VinMismatchRejected ==
    \A v \in Vins : \A body \in Bodies :
       body["vin"] # v =>
          /\ ctl_update_motorcycle(db, v, body) = Rejected(db)
          /\ ctl_partially_update_motorcycle(db, v, body) = Rejected(db)

C4_Witness ==
    /\ op \in {"put", "patch"}
    /\ resp.status = "ValidationError"
    /\ db = {}
    /\ next_id > 1

\* C5: the answer to a list request holds exactly the stored records, each
\* once, ordered by vin descending.
C5_ListDescending ==
    op = "list" =>
        /\ Len(resp.out) = Cardinality(db)
        /\ {resp.out[i] : i \in 1..Len(resp.out)} = db
        /\ \A i, j \in 1..Len(resp.out) :
             i < j => resp.out[i]["vin"] > resp.out[j]["vin"]

\* C6: every stored record has a vin, and no two stored records share one.
C6_VinUniqueNonNull ==
    /\ \A r \in db : r["vin"] \in Vins
    /\ \A r, q \in db : r["vin"] = q["vin"] => r = q

C6_Witness ==
    /\ Cardinality(db) = MaxVin
    /\ op \in {"put", "patch"}
    /\ resp.status = "Ok"

\* the answers of the handlers that write, to every request
Writes ==
    {ctl_create_motorcycle(db, next_id, body) : body \in Bodies}
    \cup {ctl_update_motorcycle(db, v, body) : v \in Vins, body \in Bodies}
    \cup {ctl_partially_update_motorcycle(db, v, body) : v \in Vins, body \in Bodies}
    \cup {ctl_delete_motorcycle_by_vin(db, v) : v \in Vins}

\* C7: the id of a record is the one the table assigned when it was created:
\* no request changes the id stored for a vin, a row that a request adds gets
\* the next id of the sequence, which no stored row has, and a successful
\* update (PUT or PATCH) answers with the id the vin's row had before.
C7_IdNeverChanges ==
    /\ next_id \notin Ids(db)
    /\ \A w \in Writes :
          /\ \A r \in db, q \in w.rows : r["vin"] = q["vin"] => r["id"] = q["id"]
          /\ \A q \in w.rows : q["id"] \in Ids(db) \cup {next_id}
    /\ \A v \in Vins : \A body \in Bodies :
          \A u \in {ctl_update_motorcycle(db, v, body),
                    ctl_partially_update_motorcycle(db, v, body)} :
             u.status = "Ok" =>
                /\ Stored(db, v) /\ Stored(u.rows, v)
                /\ RowOf(u.rows, v)["id"] = RowOf(db, v)["id"]
                /\ u.out[1]["id"] = RowOf(db, v)["id"]

C7_Witness ==
    /\ op \in {"put", "patch"}
    /\ resp.status = "Ok"
    /\ resp.out[1] \in db
    /\ resp.out[1]["id"] > 1

\* C8: a PUT on a stored vin whose body leaves out one of the fields is
\* rejected with a validation error and leaves the table as it was.
C8_PutRequiresAllFields ==
    [][op' = "put" => \A v \in Vins : \A body \in Bodies :
         (Stored(db, v) /\ UpdateMotorcycle(v, body)
          /\ \E f \in Fields : body[f] = Absent)
         => /\ resp'.status = "ValidationError"
            /\ db' = db]_vars

\* C9 as stated: after a successful PATCH every supplied field holds the
\* supplied value and every field the body leaves out is cleared.
C9_PatchClearsOmitted ==
    [][op' = "patch" => \A v \in Vins : \A body \in Bodies :
         (PartiallyUpdateMotorcycle(v, body) /\ resp'.status = "Ok")
         => \A f \in Fields :
               IF body[f] # Absent THEN RowOf(db', v)[f] = body[f]
               ELSE RowOf(db', v)[f] = Null]_vars

\* C9 amended: after a successful PATCH every supplied field holds the
\* supplied value and every field the body leaves out keeps the value it had.
C9_PatchKeepsOmitted ==
    \A v \in Vins : \A body \in Bodies :
       LET p == ctl_partially_update_motorcycle(db, v, body)
       IN p.status = "Ok" =>
             \A f \in Fields :
                /\ p.out[1][f] = RowOf(p.rows, v)[f]
                /\ IF body[f] # Absent THEN RowOf(p.rows, v)[f] = body[f]
                   ELSE RowOf(p.rows, v)[f] = RowOf(db, v)[f]

C9_Witness ==
    /\ op = "patch"
    /\ resp.status = "Ok"
    /\ resp.out[1] \in db
    /\ resp.out[1]["motorcycle_type"] = "v2"
    /\ resp.out[1]["number_of_seats"] = "v2"

\* C10: nothing holds the row between the lookup and the act of an update or
\* a delete: a process that has looked a row up acts on the id it saw, and
\* when another process has deleted that row in between, the act answers
\* NotFound and changes nothing.
C10_ActAfterConcurrentDelete ==
    \A w \in Workers :
       inflight[w] # Idle =>
          LET a == IF inflight[w].pc = "update" THEN update_act(db, inflight[w])
                   ELSE delete_act(db, inflight[w])
          IN IF inflight[w].seen["id"] \in Ids(db)
             THEN a.status # "NotFound"
             ELSE a.status = "NotFound" /\ a.rows = db

\* a process has looked a row up, and another process's delete has removed
\* that row before the first one acts
C10_Witness ==
    \E w \in Workers :
       /\ inflight[w] # Idle
       /\ inflight[w].pc = "update"
       /\ inflight[w].seen["id"] \notin Ids(db)
       /\ op = "delete"
       /\ resp.status = "Ok"

====
